---- MODULE Spec2Model ----
(***************************************************************************)
(* A model of the tripmap repository: the CSV normalizer                   *)
(* (src/clean_csv.py, clean_trip_csv) and the trip map builder             *)
(* (src/tripmap.py, geocode_places, get_driving_route,                     *)
(* create_animated_trip_map, create_trip_map).                             *)
(*                                                                         *)
(* Data representation                                                     *)
(*   - a text cell is a sequence of one-character strings:                 *)
(*     "car " is <<"c","a","r"," ">>;                                      *)
(*   - a missing cell (pandas NaN) is NaN, a missing timestamp is NaT,     *)
(*     Python's None is None;                                              *)
(*   - a date text is <<fmt, d>>: day d written in format fmt ("iso" is    *)
(*     YYYY-MM-DD, "us" is MM/DD/YYYY); <<"bad">> is a text no format      *)
(*     parses; a parsed Timestamp is <<"ts", d>>;                          *)
(*   - a data frame is a sequence of rows; the field idx is the row's      *)
(*     index label, the field orig the 0-based position the row had in     *)
(*     the file (kept to state the claims, never read by an operation).    *)
(*                                                                         *)
(* Library calls are modelled by their contract: pd.to_datetime with the   *)
(* default errors='raise' raises on a text it cannot parse and maps a      *)
(* missing cell to NaT; DataFrame.sort_values with the default             *)
(* kind='quicksort' returns some ordering sorted by the key, the order of  *)
(* equal keys being unspecified (numpy's introsort partitions as soon as   *)
(* more than 17 keys are sorted); the .str accessor raises AttributeError  *)
(* on a column that holds no text (dtype float64); an uncaught exception   *)
(* ends the process with status 1.  Cells that pandas would read as        *)
(* numbers are outside the model.                                          *)
(***************************************************************************)
EXTENDS Integers, Sequences, FiniteSets, TLC

(***************************************************************************)
(* Bounds                                                                  *)
(***************************************************************************)
MaxRows == 2
MaxDay == 2

(***************************************************************************)
(* Values                                                                  *)
(***************************************************************************)
NaN == <<"NaN">>
NaT == <<"NaT">>
None == <<"None">>
BadDate == <<"bad">>

isna(c) == c = NaN \/ c = NaT \/ c = None

Whitespace == {" ", "\t"}

UpperCase == <<"A","B","C","D","E","F","G","H","I","J","K","L","M",
               "N","O","P","Q","R","S","T","U","V","W","X","Y","Z">>
LowerCase == <<"a","b","c","d","e","f","g","h","i","j","k","l","m",
               "n","o","p","q","r","s","t","u","v","w","x","y","z">>

SetMin(S) == CHOOSE x \in S : \A y \in S : x <= y
SetMax(S) == CHOOSE x \in S : \A y \in S : y <= x

\* str.lower(), one character
lower_char(ch) ==
    IF \E k \in DOMAIN UpperCase : UpperCase[k] = ch
    THEN LowerCase[CHOOSE k \in DOMAIN UpperCase : UpperCase[k] = ch]
    ELSE ch

\* Series.str.lower() / str.lower() on one text
str_lower(s) == [k \in 1..Len(s) |-> lower_char(s[k])]

\* Series.str.strip() / str.strip() on one text: leading and trailing
\* whitespace removed, inner whitespace kept
str_strip(s) ==
    LET keep == {k \in 1..Len(s) : s[k] \notin Whitespace}
    IN  IF keep = {} THEN <<>> ELSE SubSeq(s, SetMin(keep), SetMax(keep))

s_car == <<"c","a","r">>
s_drive == <<"d","r","i","v","e">>
s_driving == <<"d","r","i","v","i","n","g">>
s_flight == <<"f","l","i","g","h","t">>
s_fly == <<"f","l","y">>
s_airline == <<"a","i","r","l","i","n","e">>
s_plane == <<"p","l","a","n","e">>

\* the rows of a frame that satisfy keep, in order (boolean indexing)
RECURSIVE FilterSeq(_, _)
FilterSeq(s, keep) ==
    IF s = <<>> THEN <<>>
    ELSE LET rest == FilterSeq(Tail(s), [k \in 1..(Len(s) - 1) |-> keep[k + 1]])
         IN  IF keep[1] THEN <<Head(s)>> \o rest ELSE rest

\* DataFrame.reset_index(drop=True): labels 0..n-1 in the current order
reset_index(f) == [k \in 1..Len(f) |-> [f[k] EXCEPT !.idx = k - 1]]

(***************************************************************************)
(* Type normalization, clean_csv.py lines 97-115                           *)
(***************************************************************************)
type_mapping ==
    (s_car :> s_car) @@ (s_drive :> s_car) @@ (s_driving :> s_car) @@
    (s_flight :> s_flight) @@ (s_fly :> s_flight) @@
    (s_airline :> s_flight) @@ (s_plane :> s_flight)

\* type_mapping.get(x, 'flight')
type_mapping_get(x) ==
    IF x \in DOMAIN type_mapping THEN type_mapping[x] ELSE s_flight

\* Series.fillna(value), one cell
fillna(c, value) == IF isna(c) THEN value ELSE c

\* (mutant: the value is not trimmed)
NormalizeType_no_strip(c) == type_mapping_get(str_lower(fillna(c, s_flight)))
\* one cell through lines 102 and 115
NormalizeType(c) == type_mapping_get(str_strip(str_lower(fillna(c, s_flight))))

(***************************************************************************)
(* Dates                                                                   *)
(***************************************************************************)
DateFormats == {"iso", "us"}
DateTexts == {<<f, d>> : f \in DateFormats, d \in 1..MaxDay}

\* whether pd.to_datetime(column, format='mixed') raises: errors='raise' is
\* the default, so one unparseable text fails the whole column
to_datetime_raises(f) == \E k \in 1..Len(f) : f[k].date = BadDate

\* pd.to_datetime on one cell that parses: the format is dropped
to_datetime(c) == IF isna(c) THEN NaT ELSE <<"ts", c[2]>>

\* Series.dt.strftime('%Y-%m-%d') / Timestamp.strftime on one Timestamp
strftime(t) == <<"iso", t[2]>>

\* the orderings sort_values(by=date) may return for frame f: every
\* permutation p with non-decreasing keys; rows whose key is NaT come last,
\* in their original order (na_position='last')
SortOrders(f) ==
    {p \in [1..Len(f) -> 1..Len(f)] :
        /\ \A a, b \in 1..Len(f) : a # b => p[a] # p[b]
        /\ \A a, b \in 1..Len(f) : a < b =>
              \/ f[p[b]].date = NaT /\ f[p[a]].date # NaT
              \/ f[p[b]].date = NaT /\ f[p[a]].date = NaT /\ p[a] < p[b]
              \/ f[p[a]].date # NaT /\ f[p[b]].date # NaT
                   /\ f[p[a]].date[2] <= f[p[b]].date[2]}

(***************************************************************************)
(* CSV files                                                               *)
(***************************************************************************)
\* the texts pd.read_csv reads as a missing value (its default na_values,
\* those the model's alphabet can spell), quoted or not
na_values == {<<>>, <<"N","A">>, <<"N","/","A">>, <<"n","a","n">>,
              <<"N","a","N">>, <<"n","u","l","l">>, <<"N","U","L","L">>,
              <<"N","o","n","e">>, <<"n","/","a">>}

\* DataFrame.to_csv(quoting=QUOTE_ALL), one cell: a missing cell is written
\* as the empty field
to_csv_cell(c) == IF isna(c) THEN <<>> ELSE c

\* pd.read_csv, one field
read_csv_cell(t) == IF t \in na_values THEN NaN ELSE t

Columns == {"date", "place", "type"}

DateCells == {NaN, BadDate} \cup DateTexts
PlaceCells == {NaN, <<" ">>, <<" ","P">>, <<"N","A"," ">>}
TypeCells == {NaN, <<"D","r","i","v","e"," ">>}

FileRows(cols) ==
    [date : IF "date" \in cols THEN DateCells ELSE {NaN},
     place : IF "place" \in cols THEN PlaceCells ELSE {NaN},
     type : IF "type" \in cols THEN TypeCells ELSE {NaN}]

\* the tables of n rows with columns cols
Tables(cols, n) == [1..n -> FileRows(cols)]

\* the dtype pd.read_csv gives a text column: object when the table is
\* empty or some cell holds text, float64 when every cell is missing
column_dtype(rows, col) ==
    IF rows = <<>> \/ \E k \in 1..Len(rows) : ~isna(rows[k][col])
    THEN "object" ELSE "float64"

\* pd.read_csv: the frame of a readable file
read_csv(file) ==
    [k \in 1..Len(file.rows) |->
        [idx |-> k - 1, orig |-> k - 1, date |-> file.rows[k].date,
         place |-> file.rows[k].place, type |-> file.rows[k].type]]

(***************************************************************************)
(* State                                                                   *)
(***************************************************************************)
VARIABLES
    csv,            \* the input file
    df,             \* the data frame
    pc,             \* the position of the run
    out,            \* the output CSV file: whether written, and its rows
    log,            \* the per-row warnings printed so far
    exitStatus,     \* -1 while running, else the process's exit status
    exitAt,         \* the source line at which the run ended (0: running)
    run,            \* 1: the run on the input; 2: the run on run 1's output
    firstOut,       \* the rows run 1 wrote (for run 2)
    variant,        \* map builder: "animated" or "basic" ("" in the normalizer)
    coords,         \* geocode_places: coords and locations_found, one entry per row done
    geoLog,         \* the calls made to the geocoding provider, in order
    df_valid,       \* the rows with coordinates
    google_api_key, \* the value read from the environment
    route_segments, \* the segments stored for the animation
    polylines,      \* the route lines added to the map
    markers,        \* the markers added to the map
    routeLog,       \* the requests made to the routing providers, in order
    html,           \* the output HTML file
    places,         \* the place labels of the rows on the map
    file,           \* the text of the output file
    html_content,   \* the text read back from the output file
    js_segments,    \* the segments prepared for the animation
    js_segments_json, \* their serialization
    animation_script, \* the script block
    routeSegments,  \* the page's segments, each the length of its path
    currentSegmentIndex,
    movingMarker,   \* null, or the segment and point the marker is at
    isPlaying,
    animationTimeoutId,
    currentPointIndex,
    currentSegmentPath, \* the segment whose path is loaded, -1 for []
    playButton,     \* the button's label, "none" before the control is added
    timers,         \* the pending timers
    clicks,         \* the number of clicks so far
    startedSegments, \* the segments whose animation has started since the last reset
    jsError         \* a handler of the page has thrown

cleanVars == <<out, log, run, firstOut>>
mapVars == <<variant, coords, geoLog, df_valid, google_api_key, route_segments,
             polylines, markers, routeLog, html>>
spliceVars == <<places, file, html_content, js_segments, js_segments_json,
                animation_script>>
animVars == <<routeSegments, currentSegmentIndex, movingMarker, isPlaying,
              animationTimeoutId, currentPointIndex, currentSegmentPath, playButton,
              timers, clicks, startedSegments, jsError>>
pageVars == <<spliceVars, animVars>>
vars == <<csv, df, pc, exitStatus, exitAt, cleanVars, mapVars, pageVars>>

Running == exitStatus = -1

\* sys.exit(1), or an exception nothing catches, at source line ln
Exit1(ln) ==
    /\ pc' = "exit"
    /\ exitStatus' = 1
    /\ exitAt' = ln

(***************************************************************************)
(* clean_trip_csv, clean_csv.py lines 13-133                               *)
(***************************************************************************)
has_type_column == "type" \in csv.cols

\* the splice's variables before the splice
SpliceIdle ==
    /\ places = <<>>
    /\ file = <<>>
    /\ html_content = <<>>
    /\ js_segments = <<>>
    /\ js_segments_json = <<>>
    /\ animation_script = <<>>

\* the page's variables before the page is loaded
AnimIdle ==
    /\ routeSegments = <<>>
    /\ currentSegmentIndex = 0
    /\ movingMarker = None
    /\ isPlaying = FALSE
    /\ animationTimeoutId = None
    /\ currentPointIndex = 0
    /\ currentSegmentPath = -1
    /\ playButton = "none"
    /\ timers = {}
    /\ clicks = 0
    /\ startedSegments = <<>>
    /\ jsError = FALSE

\* the map builder's variables while the normalizer runs
MapIdle ==
    /\ variant = ""
    /\ coords = <<>>
    /\ geoLog = <<>>
    /\ df_valid = <<>>
    /\ google_api_key = None
    /\ route_segments = <<>>
    /\ polylines = <<>>
    /\ markers = <<>>
    /\ routeLog = <<>>
    /\ html = [saved |-> FALSE, injected |-> FALSE]

\* the input file: an unreadable one, or for some set of columns a table of
\* at most MaxRows rows
InitClean ==
    /\ \/ csv = [readable |-> FALSE, cols |-> {}, rows |-> <<>>]
       \/ \E c \in SUBSET Columns, n \in 0..MaxRows :
             csv \in [readable : {TRUE}, cols : {c}, rows : Tables(c, n)]
    /\ df = <<>>
    /\ pc = "read"
    /\ out = [written |-> FALSE, rows |-> <<>>]
    /\ log = <<>>
    /\ exitStatus = -1
    /\ exitAt = 0
    /\ run = 1
    /\ firstOut = <<>>
    /\ MapIdle
    /\ SpliceIdle
    /\ AnimIdle

\* lines 28-33
ReadCsv ==
    /\ pc = "read"
    /\ IF csv.readable
       THEN /\ df' = read_csv(csv)
            /\ pc' = "columns"
            /\ UNCHANGED <<exitStatus, exitAt>>
       ELSE /\ Exit1(33)
            /\ UNCHANGED df
    /\ UNCHANGED <<csv, out, log, run, firstOut, mapVars, pageVars>>

\* the test of the required columns, clean_csv.py line 36, tripmap.py lines
\* 129 and 481 (mutant: "and" for "or")
missing_required_columns_and(cols) == "date" \notin cols /\ "place" \notin cols
missing_required_columns(cols) == "date" \notin cols \/ "place" \notin cols

\* lines 35-39
ValidateColumns ==
    /\ pc = "columns"
    /\ IF missing_required_columns(csv.cols)
       THEN Exit1(39)
       ELSE /\ pc' = "dates"
            /\ UNCHANGED <<exitStatus, exitAt>>
    /\ UNCHANGED <<csv, df, out, log, run, firstOut, mapVars, pageVars>>

\* line 56: valid_dates, per row of the parsed frame
valid_dates(f) == [k \in 1..Len(f) |-> f[k].date # NaT]

\* lines 63-64: one warning per invalid date, "Row {idx + 2}: '{original}'"
date_warnings(orig_f, parsed) ==
    LET bad == FilterSeq(orig_f, [k \in 1..Len(parsed) |-> parsed[k].date = NaT])
    IN  [k \in 1..Len(bad) |-> [kind |-> "date", row |-> bad[k].idx + 2, text |-> bad[k].date]]

\* lines 50-72
ValidateDates ==
    /\ pc = "dates"
    /\ IF to_datetime_raises(df)
       THEN /\ Exit1(72)
            /\ UNCHANGED <<df, log>>
       ELSE LET parsed == [k \in 1..Len(df) |-> [df[k] EXCEPT !.date = to_datetime(@)]]
            IN  /\ IF \A k \in 1..Len(parsed) : valid_dates(parsed)[k]
                   THEN /\ df' = parsed
                        /\ UNCHANGED log
                   ELSE /\ log' = log \o date_warnings(df, parsed)
                        /\ df' = reset_index(FilterSeq(parsed, valid_dates(parsed)))
                /\ pc' = "sort"
                /\ UNCHANGED <<exitStatus, exitAt>>
    /\ UNCHANGED <<csv, out, run, firstOut, mapVars, pageVars>>

\* df.sort_values(by=date_column).reset_index(drop=True) for ordering p
sort_values(f, p) == reset_index([k \in 1..Len(f) |-> f[p[k]]])

\* lines 74-76
SortByDate ==
    /\ pc = "sort"
    /\ \E p \in SortOrders(df) : df' = sort_values(df, p)
    /\ pc' = "format"
    /\ UNCHANGED <<csv, out, log, exitStatus, exitAt, run, firstOut, mapVars, pageVars>>

\* lines 78-79
FormatDates ==
    /\ pc = "format"
    /\ df' = [k \in 1..Len(df) |-> [df[k] EXCEPT !.date = strftime(@)]]
    /\ pc' = "places"
    /\ UNCHANGED <<csv, out, log, exitStatus, exitAt, run, firstOut, mapVars, pageVars>>

\* (mutant: the blank test left out)
empty_places_isna_only(f) == [k \in 1..Len(f) |-> isna(f[k].place)]
\* line 83: empty_places, per row
empty_places(f) ==
    [k \in 1..Len(f) |-> isna(f[k].place) \/ str_strip(fillna(f[k].place, <<>>)) = <<>>]

\* lines 87-88: one warning per empty place, "Row {idx + 2}: date=..."
place_warnings(f) ==
    LET bad == FilterSeq(f, empty_places(f))
    IN  [k \in 1..Len(bad) |-> [kind |-> "place", row |-> bad[k].idx + 2, text |-> bad[k].date]]

\* lines 81-95
ValidatePlaces ==
    /\ pc = "places"
    /\ IF column_dtype(csv.rows, "place") # "object"
       THEN /\ Exit1(83)
            /\ UNCHANGED <<df, log>>
       ELSE LET kept == IF \E k \in 1..Len(df) : empty_places(df)[k]
                        THEN reset_index(FilterSeq(df, [k \in 1..Len(df) |-> ~empty_places(df)[k]]))
                        ELSE df
            IN  /\ log' = log \o place_warnings(df)
                /\ df' = [k \in 1..Len(kept) |-> [kept[k] EXCEPT !.place = str_strip(@)]]
                /\ pc' = "types"
                /\ UNCHANGED <<exitStatus, exitAt>>
    /\ UNCHANGED <<csv, out, run, firstOut, mapVars, pageVars>>

\* lines 97-122
NormalizeTypes ==
    /\ pc = "types"
    /\ IF ~has_type_column
       THEN /\ pc' = "write"
            /\ UNCHANGED <<df, exitStatus, exitAt>>
       ELSE IF column_dtype(csv.rows, "type") # "object" /\ df = <<>>
       THEN \* fillna leaves an empty float64 column as it is: .str raises
            /\ Exit1(102)
            /\ UNCHANGED df
       ELSE /\ df' = [k \in 1..Len(df) |-> [df[k] EXCEPT !.type = NormalizeType(@)]]
            /\ pc' = "write"
            /\ UNCHANGED <<exitStatus, exitAt>>
    /\ UNCHANGED <<csv, out, log, run, firstOut, mapVars, pageVars>>

\* lines 124-133: the file is written, the summary printed, the run ends
WriteCsv ==
    /\ pc = "write"
    /\ out' = [written |-> TRUE,
               rows |-> [k \in 1..Len(df) |->
                           [orig |-> df[k].orig, date |-> df[k].date,
                            place |-> to_csv_cell(df[k].place),
                            type |-> to_csv_cell(df[k].type)]]]
    /\ pc' = "done"
    /\ exitStatus' = 0
    /\ exitAt' = 133
    /\ UNCHANGED <<csv, df, log, run, firstOut, mapVars, pageVars>>

\* clean_trip_csv run again, on the file the first run wrote
Rerun ==
    /\ pc = "done"
    /\ run = 1
    /\ run' = 2
    /\ firstOut' = out.rows
    /\ csv' = [readable |-> TRUE, cols |-> csv.cols,
               rows |-> [k \in 1..Len(out.rows) |->
                           [date |-> out.rows[k].date,
                            place |-> read_csv_cell(out.rows[k].place),
                            type |-> IF has_type_column
                                     THEN read_csv_cell(out.rows[k].type) ELSE NaN]]]
    /\ df' = <<>>
    /\ pc' = "read"
    /\ out' = [written |-> FALSE, rows |-> <<>>]
    /\ log' = <<>>
    /\ exitStatus' = -1
    /\ exitAt' = 0
    /\ UNCHANGED <<mapVars, pageVars>>

NextClean ==
    \/ ReadCsv
    \/ ValidateColumns
    \/ ValidateDates
    \/ SortByDate
    \/ FormatDates
    \/ ValidatePlaces
    \/ NormalizeTypes
    \/ WriteCsv
    \/ Rerun

SpecClean == InitClean /\ [][NextClean]_vars

(***************************************************************************)
(* The normalizer on one valid row whose type cell ranges over the         *)
(* spellings of a word: any letter case, whitespace on either side         *)
(***************************************************************************)
MaxPad == 1

s_unknown == <<"u","n","k","n","o","w","n">>
s_cars == <<"c","a","r","s">>
TypeWords == {s_car, s_drive, s_driving, s_flight, s_fly, s_airline, s_plane,
              s_unknown, s_cars, <<>>}

\* str.upper(), one character
upper_char(ch) ==
    IF \E k \in DOMAIN LowerCase : LowerCase[k] = ch
    THEN UpperCase[CHOOSE k \in DOMAIN LowerCase : LowerCase[k] = ch]
    ELSE ch

\* word with the letters at the positions of mask in upper case
Cased(word, mask) ==
    [k \in 1..Len(word) |-> IF k \in mask THEN upper_char(word[k]) ELSE word[k]]

\* the runs of at most MaxPad whitespace characters
Pads == UNION {[1..n -> Whitespace] : n \in 0..MaxPad}

\* the spellings of the words of W
Spellings(W) ==
    {l \o Cased(w, m) \o r : <<l, w, m, r>> \in
        UNION {Pads \X {w} \X (SUBSET (1..Len(w))) \X Pads : w \in W}}

\* the type cells: a missing cell, or a spelling that is not the empty
\* text (pd.read_csv reads an empty field as missing)
RichTypeCells == {NaN} \cup (Spellings(TypeWords) \ {<<>>})

InitType ==
    /\ \E t \in RichTypeCells :
         csv = [readable |-> TRUE, cols |-> Columns,
                rows |-> <<[date |-> <<"iso", 1>>, place |-> <<"P">>, type |-> t]>>]
    /\ df = <<>>
    /\ pc = "read"
    /\ out = [written |-> FALSE, rows |-> <<>>]
    /\ log = <<>>
    /\ exitStatus = -1
    /\ exitAt = 0
    /\ run = 1
    /\ firstOut = <<>>
    /\ MapIdle
    /\ SpliceIdle
    /\ AnimIdle

SpecType == InitType /\ [][NextClean]_vars

(***************************************************************************)
(* geocode_places, tripmap.py lines 23-65                                  *)
(***************************************************************************)
\* what one call geocode(place) can do: return a location, return None, or
\* raise (a timeout, a service error, retries exhausted)
GeocodeOutcomes == {"found", "not_found", "exception"}

\* the location the provider has for a place: the coordinates of place P are
\* <<"lat", "P">> and <<"lon", "P">>
Location(place) ==
    LET name == IF isna(place) THEN "nan" ELSE place[1]
    IN  [latitude |-> <<"lat", name>>, longitude |-> <<"lon", name>>,
         address |-> <<"@", name>>]

\* (mutant: a lookup that raises leaves no entry)
geocode_entry_skip(outcome, place) ==
    IF outcome = "found"
    THEN <<[latitude |-> Location(place).latitude,
            longitude |-> Location(place).longitude,
            address |-> Location(place).address]>>
    ELSE IF outcome = "not_found"
    THEN <<[latitude |-> None, longitude |-> None, address |-> None]>>
    ELSE <<>>
\* lines 40-60: what one iteration appends to coords and locations_found
geocode_entry(outcome, place) ==
    IF outcome = "found"
    THEN <<[latitude |-> Location(place).latitude,
            longitude |-> Location(place).longitude,
            address |-> Location(place).address]>>
    ELSE <<[latitude |-> None, longitude |-> None, address |-> None]>>

(***************************************************************************)
(* get_driving_route, tripmap.py lines 68-119                              *)
(***************************************************************************)
\* what one routing request can do: answer OK with an encoded polyline,
\* answer with another status, answer with a body that lacks the expected
\* fields or is no JSON, or fail in transport (connection error, timeout)
RouteOutcomes == {"ok", "not_ok", "malformed", "transport_error"}

\* the point lists polyline.decode can return for a route from a to b: a
\* road through a waypoint, or no point at all (an empty geometry)
DecodedPolylines(a, b) == {<<a, <<<<"lat", "via">>, <<"lon", "via">>>>, b>>, <<>>}

\* (mutant: only an unset variable counts as no key)
route_provider_not_none(key) == IF key # None THEN "google" ELSE "osrm"
\* lines 74 and 98: the provider the request goes to
route_provider(key) == IF key # None /\ key # <<>> THEN "google" ELSE "osrm"

\* lines 76-97 and 100-119: the value returned for a provider outcome
get_driving_route(outcome, decoded) == IF outcome = "ok" THEN decoded ELSE None

(***************************************************************************)
(* create_animated_trip_map, tripmap.py lines 122-467, and                 *)
(* create_trip_map, lines 470-595                                          *)
(***************************************************************************)
MaxMapRows == 3

MapDateCells == {NaN, BadDate} \cup {<<"iso", d>> : d \in 1..MaxDay}
MapTypeCells == {NaN, <<" ","D","r","i","v","e">>, <<"F","L","Y">>}

\* the place of the k-th row of the input: P, Q, R, ...
PlaceOf(k) == <<UpperCase[15 + k]>>

\* the source line of a step, by variant
Line(animated, basic) == IF variant = "animated" THEN animated ELSE basic

CleanIdle ==
    /\ out = [written |-> FALSE, rows |-> <<>>]
    /\ log = <<>>
    /\ run = 1
    /\ firstOut = <<>>

\* the input file: an unreadable one, or for some set of columns a table of
\* at most MaxMapRows rows, each with a place of its own
InitMap ==
    /\ variant \in {"animated", "basic"}
    /\ \/ csv = [readable |-> FALSE, cols |-> {}, rows |-> <<>>]
       \/ \E c \in SUBSET Columns, n \in 0..MaxMapRows :
            \E ds \in [1..n -> IF "date" \in c THEN MapDateCells ELSE {NaN}],
               ts \in [1..n -> IF "type" \in c THEN MapTypeCells ELSE {NaN}] :
                csv = [readable |-> TRUE, cols |-> c,
                       rows |-> [k \in 1..n |->
                                   [date |-> ds[k],
                                    place |-> IF "place" \in c THEN PlaceOf(k) ELSE NaN,
                                    type |-> ts[k]]]]
    /\ df = <<>>
    /\ pc = "m_read"
    /\ exitStatus = -1
    /\ exitAt = 0
    /\ coords = <<>>
    /\ geoLog = <<>>
    /\ df_valid = <<>>
    /\ google_api_key = None
    /\ route_segments = <<>>
    /\ polylines = <<>>
    /\ markers = <<>>
    /\ routeLog = <<>>
    /\ html = [saved |-> FALSE, injected |-> FALSE]
    /\ CleanIdle
    /\ SpliceIdle
    /\ AnimIdle

\* lines 125-132 and 477-484: pd.read_csv (nothing catches its exception)
\* and the test of the required columns
MapReadCsv ==
    /\ pc = "m_read"
    /\ IF ~csv.readable
       THEN /\ Exit1(Line(126, 478))
            /\ UNCHANGED df
       ELSE IF missing_required_columns(csv.cols)
       THEN /\ Exit1(Line(132, 484))
            /\ UNCHANGED df
       ELSE /\ df' = read_csv(csv)
            /\ pc' = "m_dates"
            /\ UNCHANGED <<exitStatus, exitAt>>
    /\ UNCHANGED <<csv, cleanVars, pageVars, mapVars>>

\* lines 134-142 and 486-494: the type column defaults to 'flight'; the
\* dates are parsed (nothing catches pd.to_datetime's exception) and the
\* frame is sorted by date
MapParseAndSort ==
    /\ pc = "m_dates"
    /\ IF to_datetime_raises(df)
       THEN /\ Exit1(Line(141, 493))
            /\ UNCHANGED df
       ELSE LET typed == [k \in 1..Len(df) |->
                            [df[k] EXCEPT !.type = IF has_type_column THEN @ ELSE s_flight]]
                parsed == [k \in 1..Len(typed) |->
                            [typed[k] EXCEPT !.date = to_datetime(@)]]
            IN  /\ \E p \in SortOrders(parsed) : df' = sort_values(parsed, p)
                /\ pc' = "m_geocode"
                /\ UNCHANGED <<exitStatus, exitAt>>
    /\ UNCHANGED <<csv, cleanVars, pageVars, mapVars>>

\* lines 38-60: one iteration of the loop of geocode_places
GeocodeRow ==
    /\ pc = "m_geocode"
    /\ Len(coords) < Len(df)
    /\ \E outcome \in GeocodeOutcomes :
         LET place == df[Len(coords) + 1].place
         IN  /\ geoLog' = Append(geoLog, [place |-> place, found |-> outcome = "found"])
             /\ coords' = coords \o geocode_entry(outcome, place)
    /\ UNCHANGED <<csv, df, pc, exitStatus, exitAt, cleanVars, pageVars, variant, df_valid,
                   google_api_key, route_segments, polylines, markers, routeLog, html>>

\* df.dropna(subset=['latitude', 'longitude']): the index labels are kept
dropna(f) ==
    FilterSeq(f, [k \in 1..Len(f) |-> ~isna(f[k].latitude) /\ ~isna(f[k].longitude)])

\* lines 62-65, then 149-156 and 501-508: the columns are assigned (a list
\* whose length is not the frame's raises ValueError), the rows without
\* coordinates are dropped, and the run ends when none is left
GeocodeReturn ==
    /\ pc = "m_geocode"
    /\ Len(geoLog) = Len(df)
    /\ IF Len(coords) # Len(df)
       THEN /\ Exit1(62)
            /\ UNCHANGED <<df, df_valid>>
       ELSE LET located == [k \in 1..Len(df) |->
                              [idx |-> df[k].idx, orig |-> df[k].orig,
                               date |-> df[k].date, place |-> df[k].place,
                               type |-> df[k].type,
                               latitude |-> coords[k].latitude,
                               longitude |-> coords[k].longitude,
                               geocoded_address |-> coords[k].address]]
            IN  /\ df' = located
                /\ df_valid' = dropna(located)
                /\ IF dropna(located) = <<>>
                   THEN Exit1(Line(154, 506))
                   ELSE /\ pc' = Line("m_env", "m_markers")
                        /\ UNCHANGED <<exitStatus, exitAt>>
    /\ UNCHANGED <<csv, cleanVars, pageVars, variant, coords, geoLog, google_api_key,
                   route_segments, polylines, markers, routeLog, html>>

\* the values os.environ.get('GOOGLE_MAPS_API_KEY') can return: None when
\* the variable is not set, else its text, which may be empty
ApiKeys == {None, <<>>, <<"k">>}

\* lines 158-173 and 534-537: the map is created (animated) and the API key
\* read from the environment
ReadEnvironment ==
    /\ pc = "m_env"
    /\ google_api_key' \in ApiKeys
    /\ pc' = "m_routes"
    /\ UNCHANGED <<csv, df, exitStatus, exitAt, cleanVars, pageVars, variant, coords, geoLog,
                   df_valid, route_segments, polylines, markers, routeLog, html>>

\* (mutant: the type of the end row decides)
leg_type_of_end(f, i) == f[i + 2].type
\* lines 183 and 546: the type cell that decides leg i (0-based) of frame f
leg_type(f, i) == f[i + 1].type

\* lines 183-189 and 546-552
is_car(cell) ==
    LET trip_type == str_strip(str_lower(IF isna(cell) THEN s_flight ELSE cell))
    IN  trip_type \in {s_car, s_drive, s_driving}

\* lines 176-234 and 539-590: one iteration of the loop over the legs
RouteLeg ==
    /\ pc = "m_routes"
    /\ Len(polylines) < Len(df_valid) - 1
    /\ LET i == Len(polylines)
           start_row == df_valid[i + 1]
           end_row == df_valid[i + 2]
           start_coords == <<start_row.latitude, start_row.longitude>>
           end_coords == <<end_row.latitude, end_row.longitude>>
           car == is_car(leg_type(df_valid, i))
           Store(path_coords) ==
               /\ polylines' = Append(polylines,
                     [path |-> path_coords, mode |-> IF car THEN "car" ELSE "flight",
                      start_idx |-> start_row.idx, end_idx |-> end_row.idx])
               /\ route_segments' =
                     IF variant = "animated"
                     THEN Append(route_segments,
                             [start_idx |-> i, end_idx |-> i + 1, coords |-> path_coords,
                              is_car |-> car, start_place |-> start_row.place,
                              end_place |-> end_row.place])
                     ELSE route_segments
       IN  IF car
           THEN \E outcome \in RouteOutcomes,
                   decoded \in DecodedPolylines(start_coords, end_coords) :
                    LET route_coords == get_driving_route(outcome, decoded)
                    IN  /\ outcome # "ok" => decoded = <<>>
                        /\ routeLog' = Append(routeLog,
                               [leg |-> i, provider |-> route_provider(google_api_key),
                                ok |-> outcome = "ok",
                                decoded |-> IF outcome = "ok" THEN decoded ELSE None])
                        /\ Store(IF route_coords # None /\ route_coords # <<>>
                                 THEN route_coords
                                 ELSE <<start_coords, end_coords>>)
           ELSE /\ Store(<<start_coords, end_coords>>)
                /\ UNCHANGED routeLog
    /\ UNCHANGED <<csv, df, pc, exitStatus, exitAt, cleanVars, pageVars, variant, coords, geoLog,
                   df_valid, google_api_key, markers, html>>

\* the loop over the legs is done
RoutesDone ==
    /\ pc = "m_routes"
    /\ Len(polylines) = Len(df_valid) - 1
    /\ pc' = Line("m_markers", "m_save")
    /\ UNCHANGED <<csv, df, exitStatus, exitAt, cleanVars, pageVars, mapVars>>

\* lines 241 and 524: the colour of the marker of the row labelled idx
marker_color(idx, n) ==
    IF idx = 0 THEN "red" ELSE IF idx = n - 1 THEN "green" ELSE "blue"

\* lines 239-252 and 517-531: one marker per row of df_valid; strftime
\* raises ValueError on NaT and nothing catches it
AddMarkers ==
    /\ pc = "m_markers"
    /\ LET firstNaT == {k \in 1..Len(df_valid) : df_valid[k].date = NaT}
           upto == IF firstNaT = {} THEN Len(df_valid) ELSE SetMin(firstNaT) - 1
       IN  /\ markers' = [k \in 1..upto |->
                            [location |-> <<df_valid[k].latitude, df_valid[k].longitude>>,
                             place |-> df_valid[k].place,
                             date_str |-> strftime(df_valid[k].date),
                             color |-> marker_color(df_valid[k].idx, Len(df_valid)),
                             stop |-> df_valid[k].idx + 1,
                             of |-> Len(df_valid)]]
           /\ IF firstNaT # {}
              THEN Exit1(Line(240, 518))
              ELSE /\ pc' = Line("m_save", "m_env")
                   /\ UNCHANGED <<exitStatus, exitAt>>
    /\ UNCHANGED <<csv, df, cleanVars, pageVars, variant, coords, geoLog, df_valid, google_api_key,
                   route_segments, polylines, routeLog, html>>

\* lines 254-269 and 592-595: trip_map.save(output_file)
SaveMap ==
    /\ pc = "m_save"
    /\ html' = [html EXCEPT !.saved = TRUE]
    /\ IF variant = "animated"
       THEN /\ pc' = "m_inject"
            /\ UNCHANGED <<exitStatus, exitAt>>
       ELSE /\ pc' = "done"
            /\ exitStatus' = 0
            /\ exitAt' = 595
    /\ UNCHANGED <<csv, df, cleanVars, pageVars, variant, coords, geoLog, df_valid, google_api_key,
                   route_segments, polylines, markers, routeLog>>

\* lines 271-467: the animation script is put into the saved file
InjectAnimation ==
    /\ pc = "m_inject"
    /\ html' = [html EXCEPT !.injected = TRUE]
    /\ pc' = "done"
    /\ exitStatus' = 0
    /\ exitAt' = 467
    /\ UNCHANGED <<csv, df, cleanVars, pageVars, variant, coords, geoLog, df_valid, google_api_key,
                   route_segments, polylines, markers, routeLog>>

NextMap ==
    \/ MapReadCsv
    \/ MapParseAndSort
    \/ GeocodeRow
    \/ GeocodeReturn
    \/ ReadEnvironment
    \/ RouteLeg
    \/ RoutesDone
    \/ AddMarkers
    \/ SaveMap
    \/ InjectAnimation

SpecMap == InitMap /\ [][NextMap]_vars

\* both tools
Init == InitClean \/ InitMap
Next == NextClean \/ NextMap
Spec == Init /\ [][Next]_vars

(***************************************************************************)
(* The splice of the animation into the saved page, tripmap.py lines       *)
(* 254-459.  A text is a sequence of pieces; the markers searched for are  *)
(* sequences of pieces too, so that a text can hold part of a marker.      *)
(***************************************************************************)
MaxPlaces == 3

BodyClose == <<"</", "body", ">">>
Placeholder == <<"ROUTE_", "SEGMENTS_", "PLACEHOLDER">>

\* the place labels: a plain one, the two markers, and part of a marker
Labels == {<<"P">>, BodyClose, Placeholder, <<"</", "body">>}

\* the positions at which old occurs in s
occurrences(s, old) ==
    {i \in 1..(Len(s) - Len(old) + 1) : SubSeq(s, i, i + Len(old) - 1) = old}

\* str.replace(old, new): every occurrence, leftmost first, none overlapping
\* another, the text put in not searched again
RECURSIVE str_replace(_, _, _)
str_replace(s, old, new) ==
    IF occurrences(s, old) = {}
    THEN s
    ELSE LET i == SetMin(occurrences(s, old))
         IN  SubSeq(s, 1, i - 1) \o new
                \o str_replace(SubSeq(s, i + Len(old), Len(s)), old, new)

\* the texts of a sequence, one after the other
RECURSIVE join(_)
join(texts) == IF texts = <<>> THEN <<>> ELSE Head(texts) \o join(Tail(texts))

\* trip_map.save(output_file), lines 239-252 and 269: the page folium
\* writes holds the popup and the tooltip of each marker as given (the
\* popup's markup is not escaped), then the closing tags
folium_save(ps) ==
    <<"<html>", "var map_1 = L.map(">>
        \o join([k \in 1..Len(ps) |-> <<"<b>">> \o ps[k] \o <<"</b>", "tooltip:">> \o ps[k]])
        \o BodyClose \o <<"</html>">>

\* lines 258-266
segments_of(ps) ==
    [i \in 1..(Len(ps) - 1) |-> [startPlace |-> ps[i], endPlace |-> ps[i + 1]]]

\* json.dumps(js_segments), line 278: the labels here have no character
\* that json.dumps escapes
json_dumps(segs) ==
    <<"[">> \o join([k \in 1..Len(segs) |->
                        <<"{startPlace:\"">> \o segs[k].startPlace
                            \o <<"\",endPlace:\"">> \o segs[k].endPlace \o <<"\"}">>])
        \o <<"]">>

\* lines 282-288
re_search(text) ==
    IF \E k \in 1..Len(text) : text[k] = "var map_1 = L.map(" THEN "map_1" ELSE "map"

\* lines 291-449: the script block, in three parts
script_head == <<"\n<script>var routeSegments = ">>
script_tail(map_var_name) == <<";", map_var_name, "</script><style></style>\n">>
script_template(map_var_name) == script_head \o Placeholder \o script_tail(map_var_name)

InitSplice ==
    /\ \E n \in 1..MaxPlaces : places \in [1..n -> Labels]
    /\ file = folium_save(places)
    /\ js_segments = segments_of(places)
    /\ html_content = <<>>
    /\ js_segments_json = <<>>
    /\ animation_script = <<>>
    /\ pc = "h_read"
    /\ csv = [readable |-> FALSE, cols |-> {}, rows |-> <<>>]
    /\ df = <<>>
    /\ exitStatus = -1
    /\ exitAt = 0
    /\ CleanIdle
    /\ MapIdle
    /\ AnimIdle

\* lines 274-278
ReadHtml ==
    /\ pc = "h_read"
    /\ html_content' = file
    /\ js_segments_json' = json_dumps(js_segments)
    /\ pc' = "h_script"
    /\ UNCHANGED <<csv, df, exitStatus, exitAt, cleanVars, mapVars, animVars,
                   places, file, js_segments, animation_script>>

\* lines 280-449
BuildScript ==
    /\ pc = "h_script"
    /\ animation_script' = script_template(re_search(html_content))
    /\ pc' = "h_placeholder"
    /\ UNCHANGED <<csv, df, exitStatus, exitAt, cleanVars, mapVars, animVars,
                   places, file, js_segments, js_segments_json, html_content>>

\* line 452
ReplacePlaceholder ==
    /\ pc = "h_placeholder"
    /\ animation_script' = str_replace(animation_script, Placeholder, js_segments_json)
    /\ pc' = "h_body"
    /\ UNCHANGED <<csv, df, exitStatus, exitAt, cleanVars, mapVars, animVars,
                   places, file, js_segments, js_segments_json, html_content>>

\* line 455
InjectBeforeBody ==
    /\ pc = "h_body"
    /\ html_content' = str_replace(html_content, BodyClose,
                                   animation_script \o <<"\n">> \o BodyClose)
    /\ pc' = "h_write"
    /\ UNCHANGED <<csv, df, exitStatus, exitAt, cleanVars, mapVars, animVars,
                   places, file, js_segments, js_segments_json, animation_script>>

\* lines 458-467
WriteBack ==
    /\ pc = "h_write"
    /\ file' = html_content
    /\ pc' = "done"
    /\ exitStatus' = 0
    /\ exitAt' = 467
    /\ UNCHANGED <<csv, df, cleanVars, mapVars, animVars, places, html_content,
                   js_segments, js_segments_json, animation_script>>

NextSplice ==
    \/ ReadHtml
    \/ BuildScript
    \/ ReplacePlaceholder
    \/ InjectBeforeBody
    \/ WriteBack

SpecSplice == InitSplice /\ [][NextSplice]_vars

(***************************************************************************)
(* The animation script of the page, tripmap.py lines 292-443.  A path is  *)
(* given by its length; a marker by the segment and the point it is at.    *)
(***************************************************************************)
MaxSegments == 2
MaxPath == 2
MaxClicks == 4

\* line 405: the number of samples of a path
StepSamples == 100

\* the lengths of the paths: short ones, and one that is stepped through
\* two points at a time
PathLengths == (1..MaxPath) \cup {2 * StepSamples}

\* the globals of lines 294-301 and the pending timers, as one value
page ==
    [seg |-> currentSegmentIndex, idx |-> currentPointIndex,
     path |-> currentSegmentPath, marker |-> movingMarker, playing |-> isPlaying,
     tid |-> animationTimeoutId, btn |-> playButton, timers |-> timers,
     started |-> startedSegments, error |-> jsError]

\* the page's globals and timers become those of st
becomes(st) ==
    /\ currentSegmentIndex' = st.seg
    /\ currentPointIndex' = st.idx
    /\ currentSegmentPath' = st.path
    /\ movingMarker' = st.marker
    /\ isPlaying' = st.playing
    /\ animationTimeoutId' = st.tid
    /\ playButton' = st.btn
    /\ timers' = st.timers
    /\ startedSegments' = st.started
    /\ jsError' = st.error

\* L.marker(path[point]) and setLatLng(path[point]): the marker at a point
\* of the path of a segment
marker_at(seg, point) == <<"at", seg, point>>

\* currentSegmentPath.length
path_length(st) == IF st.path = -1 THEN 0 ELSE routeSegments[st.path + 1]

\* the id setTimeout returns: one no pending timer has and that the page
\* does not hold
new_timer_id(st) ==
    LET used == {t.id : t \in st.timers} \cup {st.tid}
    IN  <<"timer", SetMin({k \in 1..(Cardinality(st.timers) + 2) : <<"timer", k>> \notin used})>>

\* setTimeout(...)
setTimeout(st, kind, stepSize) ==
    st.timers \cup {[id |-> new_timer_id(st), kind |-> kind, stepSize |-> stepSize]}

\* lines 407-439
animateStep(st, stepSize) ==
    IF ~st.playing
    THEN st
    ELSE LET idx == st.idx + stepSize
         IN  IF idx >= path_length(st)
             THEN IF st.seg + 1 < Len(routeSegments)
                  THEN [st EXCEPT !.idx = 0, !.seg = st.seg + 1,
                                  !.timers = setTimeout(st, "gap", 0)]
                  ELSE [st EXCEPT !.idx = 0, !.seg = st.seg + 1,
                                  !.btn = "restart", !.playing = FALSE]
             ELSE IF st.marker = None
             THEN [st EXCEPT !.idx = idx, !.error = TRUE]
             ELSE [st EXCEPT !.idx = idx,
                             !.marker = marker_at(st.path, idx),
                             !.tid = new_timer_id(st),
                             !.timers = setTimeout(st, "step", stepSize)]

\* lines 384-442
animateSegment(st) ==
    IF st.seg >= Len(routeSegments)
    THEN [st EXCEPT !.error = TRUE]
    ELSE LET loaded == [st EXCEPT !.path = st.seg]
             placed == IF st.idx = 0
                       THEN [loaded EXCEPT !.marker = marker_at(st.seg, 0),
                                           !.started = Append(@, st.seg)]
                       ELSE loaded
             stepSize == SetMax({1, path_length(loaded) \div StepSamples})
         IN  animateStep(placed, stepSize)

\* lines 365-375
startAnimation(st) ==
    IF st.seg >= Len(routeSegments)
    THEN [st EXCEPT !.btn = "restart", !.playing = FALSE]
    ELSE animateSegment(st)

\* lines 377-382
pauseAnimation(st) ==
    IF st.tid # None
    THEN [st EXCEPT !.timers = {t \in @ : t.id # st.tid}, !.tid = None]
    ELSE st

\* (mutant: resuming starts the segment again)
toggleAnimation_from_start(st) ==
    IF ~st.playing
    THEN startAnimation([st EXCEPT !.seg = IF @ >= Len(routeSegments) THEN 0 ELSE @,
                                   !.idx = 0, !.marker = None,
                                   !.started = IF st.seg >= Len(routeSegments) THEN <<>> ELSE @,
                                   !.playing = TRUE, !.btn = "pause"])
    ELSE [pauseAnimation([st EXCEPT !.playing = FALSE]) EXCEPT !.btn = "resume"]
\* lines 341-363
toggleAnimation(st) ==
    IF ~st.playing
    THEN LET first == IF st.seg >= Len(routeSegments)
                      THEN [st EXCEPT !.seg = 0, !.idx = 0, !.marker = None,
                                      !.started = <<>>]
                      ELSE st
         IN  startAnimation([first EXCEPT !.playing = TRUE, !.btn = "pause"])
    ELSE [pauseAnimation([st EXCEPT !.playing = FALSE]) EXCEPT !.btn = "resume"]

\* the page is loaded: lines 294-304
InitAnim ==
    /\ \E n \in 0..MaxSegments : routeSegments \in [1..n -> PathLengths]
    /\ currentSegmentIndex = 0
    /\ movingMarker = None
    /\ isPlaying = FALSE
    /\ animationTimeoutId = None
    /\ currentPointIndex = 0
    /\ currentSegmentPath = -1
    /\ playButton = "none"
    /\ timers = {[id |-> <<"timer", 1>>, kind |-> "control", stepSize |-> 0]}
    /\ clicks = 0
    /\ startedSegments = <<>>
    /\ jsError = FALSE
    /\ pc = "page"
    /\ csv = [readable |-> FALSE, cols |-> {}, rows |-> <<>>]
    /\ df = <<>>
    /\ exitStatus = -1
    /\ exitAt = 0
    /\ CleanIdle
    /\ MapIdle
    /\ SpliceIdle

\* lines 304-339: the timer set at load adds the button
AddControl ==
    /\ pc = "page"
    /\ \E t \in timers :
         /\ t.kind = "control"
         /\ timers' = timers \ {t}
         /\ playButton' = "play"
    /\ UNCHANGED <<csv, df, pc, exitStatus, exitAt, cleanVars, mapVars, spliceVars,
                   routeSegments, currentSegmentIndex, movingMarker, isPlaying,
                   animationTimeoutId, currentPointIndex, currentSegmentPath, clicks,
                   startedSegments, jsError>>

\* lines 326-329: a click on the button
Click ==
    /\ pc = "page"
    /\ playButton # "none"
    /\ clicks < MaxClicks
    /\ clicks' = clicks + 1
    /\ becomes(toggleAnimation(page))
    /\ UNCHANGED <<csv, df, pc, exitStatus, exitAt, cleanVars, mapVars, spliceVars,
                   routeSegments>>

\* line 438: a timer of 50 ms fires
StepTimer ==
    /\ pc = "page"
    /\ \E t \in timers :
         /\ t.kind = "step"
         /\ becomes(animateStep([page EXCEPT !.timers = @ \ {t}], t.stepSize))
    /\ UNCHANGED <<csv, df, pc, exitStatus, exitAt, cleanVars, mapVars, spliceVars,
                   routeSegments, clicks>>

\* lines 420-422: a timer of 500 ms fires
GapTimer ==
    /\ pc = "page"
    /\ \E t \in timers :
         /\ t.kind = "gap"
         /\ LET fired == [page EXCEPT !.timers = @ \ {t}]
            IN  becomes(IF fired.playing THEN animateSegment(fired) ELSE fired)
    /\ UNCHANGED <<csv, df, pc, exitStatus, exitAt, cleanVars, mapVars, spliceVars,
                   routeSegments, clicks>>

NextAnim ==
    \/ AddControl
    \/ Click
    \/ StepTimer
    \/ GapTimer

SpecAnim == InitAnim /\ [][NextAnim]_vars

\* every pending timer fires in the end
FairAnim == SpecAnim /\ WF_vars(AddControl) /\ WF_vars(StepTimer) /\ WF_vars(GapTimer)

(***************************************************************************)
(* Claims about the CSV normalizer                                         *)
(***************************************************************************)
Terminated == pc \in {"done", "exit"}

\* the number of positions of sequence s whose element satisfies Test
Count(s, Test(_)) == Cardinality({k \in 1..Len(s) : Test(s[k])})

DateParses(c) == c \in DateTexts
PlaceBlank(c) == isna(c) \/ str_strip(c) = <<>>
\* a row of the input file that the normalizer is to keep
RowValid(r) == DateParses(r.date) /\ ~PlaceBlank(r.place)
\* the input rows reached the validation of their cells
ColumnsPresent == csv.readable /\ {"date", "place"} \subseteq csv.cols

\* the position a stable sort by date gives input row k among the valid rows
StableRank(k) ==
    1 + Cardinality({j \in 1..Len(csv.rows) :
            /\ RowValid(csv.rows[j])
            /\ \/ csv.rows[j].date[2] < csv.rows[k].date[2]
               \/ csv.rows[j].date[2] = csv.rows[k].date[2] /\ j < k})

\* C1 (as claimed): when every date cell of the input parses, the rows
\* clean_trip_csv writes are sorted non-decreasing by date, and rows with
\* equal dates are in the order they had in the input: the file holds the
\* kept rows in the order of a stable sort by date.
C1_SortedAndStable ==
    (pc = "done" /\ \A k \in 1..Len(csv.rows) : DateParses(csv.rows[k].date)) =>
        /\ \A a, b \in 1..Len(out.rows) : a < b =>
              out.rows[a].date[2] <= out.rows[b].date[2]
        /\ \A k \in 1..Len(csv.rows) : RowValid(csv.rows[k]) =>
              /\ StableRank(k) <= Len(out.rows)
              /\ out.rows[StableRank(k)].place = str_strip(csv.rows[k].place)

\* C2 (as claimed): a date cell that cannot be parsed costs only its row:
\* the run ends with status 0 and has written the file, the row is reported
\* with row number (0-based input index + 2) and is absent from the file,
\* and every valid row is in the file.
C2_BadDateDropsOnlyItsRow ==
    (Terminated /\ run = 1 /\ ColumnsPresent
        /\ \E k \in 1..Len(csv.rows) : csv.rows[k].date = BadDate) =>
        /\ exitStatus = 0
        /\ out.written
        /\ \A k \in 1..Len(csv.rows) :
              /\ csv.rows[k].date = BadDate =>
                    /\ \E w \in 1..Len(log) :
                          log[w].kind = "date" /\ log[w].row = (k - 1) + 2
                    /\ \A o \in 1..Len(out.rows) : out.rows[o].orig # k - 1
              /\ RowValid(csv.rows[k]) =>
                    \E o \in 1..Len(out.rows) : out.rows[o].orig = k - 1

SameCells(a, b) == a.date = b.date /\ a.place = b.place /\ a.type = b.type

\* C5 (as claimed; place values compared after trimming): when every date
\* of the input is valid and every place non-blank, the output has as many
\* rows as the input and the same multiset of (date, place) values; and
\* clean_trip_csv run on its own output ends normally and writes that
\* output again, row for row.
C5_RoundTrip ==
    /\ (pc = "done" /\ \A k \in 1..Len(csv.rows) : RowValid(csv.rows[k])) =>
          /\ Len(out.rows) = Len(csv.rows)
          /\ \A d \in 1..MaxDay, p \in {str_strip(c) : c \in PlaceCells \ {NaN}} :
                LET In(r) == r.date[2] = d /\ str_strip(r.place) = p
                    Out(r) == r.date[2] = d /\ r.place = p
                IN  Count(csv.rows, In) = Count(out.rows, Out)
    /\ (Terminated /\ run = 2) =>
          /\ pc = "done"
          /\ Len(out.rows) = Len(firstOut)
          /\ \A k \in 1..Len(firstOut) : SameCells(out.rows[k], firstOut[k])

\* C6: every row clean_trip_csv writes has a valid date (a day, written
\* YYYY-MM-DD) and a place that is non-empty and has no leading or trailing
\* whitespace; an input row is absent from the output iff its date is
\* invalid or its place is missing or blank after trimming; and every other
\* input row is in the output exactly once, with its own date and its
\* place trimmed.
C6_PostCleaning ==
    pc = "done" =>
        /\ \A o \in 1..Len(out.rows) :
              /\ out.rows[o].date \in {<<"iso", d>> : d \in 1..MaxDay}
              /\ out.rows[o].place # <<>>
              /\ ~isna(out.rows[o].place)
              /\ out.rows[o].place[1] \notin Whitespace
              /\ out.rows[o].place[Len(out.rows[o].place)] \notin Whitespace
        /\ \A k \in 1..Len(csv.rows) :
              LET copies == {o \in 1..Len(out.rows) : out.rows[o].orig = k - 1}
              IN  /\ (copies = {}) <=>
                        (~DateParses(csv.rows[k].date) \/ PlaceBlank(csv.rows[k].place))
                  /\ Cardinality(copies) <= 1
                  /\ \A o \in copies :
                        /\ out.rows[o].date = <<"iso", csv.rows[k].date[2]>>
                        /\ out.rows[o].place = str_strip(csv.rows[k].place)

\* C6 witness: a finished run that removed one row for its date or place
\* and wrote another whose place it had to trim
C6_Witness ==
    /\ pc = "done"
    /\ run = 1
    /\ Len(csv.rows) = 2
    /\ Len(out.rows) = 1
    /\ \E k \in 1..2 : PlaceBlank(csv.rows[k].place) /\ DateParses(csv.rows[k].date)
    /\ \E k \in 1..2 : RowValid(csv.rows[k]) /\ csv.rows[k].place # out.rows[1].place

\* C7 (as claimed): in the normalizer, a run whose validation leaves no
\* valid row ends with a nonzero status, and a run that has a valid row is
\* never aborted: it ends with status 0, its file written.
C7_OnlyZeroRowsIsFatal ==
    (Terminated /\ run = 1 /\ ColumnsPresent /\ Len(csv.rows) >= 1) =>
        IF \E k \in 1..Len(csv.rows) : RowValid(csv.rows[k])
        THEN exitStatus = 0 /\ out.written
        ELSE exitStatus # 0

(***************************************************************************)
(* Claims about type normalization                                         *)
(***************************************************************************)
\* the type cell of the input is a spelling of car, drive or driving: the
\* word in any letter case, with whitespace on either side
SpellsCar(c) ==
    /\ ~isna(c)
    /\ \E w \in {s_car, s_drive, s_driving}, i \in 0..Len(c) :
          /\ i + Len(w) <= Len(c)
          /\ \A k \in 1..Len(c) :
                IF k > i /\ k <= i + Len(w)
                THEN c[k] \in {w[k - i], upper_char(w[k - i])}
                ELSE c[k] \in Whitespace

\* C3: type normalization is total and idempotent. Whatever the type cell
\* (missing, any letter case, padded, an unknown word), the value written is
\* car or flight; it is car exactly when the cell spells car, drive or
\* driving; and normalizing the written value again (the second run, on the
\* file the first wrote) gives the same value.
C3_TypeNormalization ==
    pc = "done" =>
        /\ Len(out.rows) = 1
        /\ out.rows[1].type \in {s_car, s_flight}
        /\ (out.rows[1].type = s_car) <=> SpellsCar(csv.rows[1].type)
        /\ run = 2 => out.rows[1].type = firstOut[1].type

\* C3 witness: a run ended on a padded, mixed-case spelling of drive
C3_Witness ==
    /\ pc = "done"
    /\ run = 1
    /\ csv.rows[1].type = <<"\t", "D", "r", "I", "v", "E", " ">>
    /\ out.rows[1].type = s_car

(***************************************************************************)
(* Claims about the required columns                                       *)
(***************************************************************************)
\* C4: with the date or the place column missing from a readable input,
\* the normalizer and both map builders go no further than the test of the
\* columns and end with status 1 there: no output file is written, no
\* geocoding call and no routing request is made.
C4_MissingColumnIsFatal ==
    (csv.readable /\ run = 1 /\ ("date" \notin csv.cols \/ "place" \notin csv.cols)) =>
        /\ pc \in {"read", "columns", "m_read", "exit"}
        /\ ~out.written
        /\ ~html.saved
        /\ geoLog = <<>>
        /\ routeLog = <<>>
        /\ polylines = <<>>
        /\ pc = "exit" =>
              /\ exitStatus = 1
              /\ exitAt = (IF variant = "" THEN 39
                           ELSE IF variant = "animated" THEN 132 ELSE 484)

\* C4 witness: a map builder has ended on a file with rows that has the
\* date column but not the place column
C4_Witness ==
    /\ variant = "basic"
    /\ pc = "exit"
    /\ exitStatus = 1
    /\ exitAt = 484
    /\ "date" \in csv.cols
    /\ "place" \notin csv.cols
    /\ Len(csv.rows) = MaxMapRows

(***************************************************************************)
(* Claims about the map builders                                           *)
(***************************************************************************)
\* the loop of geocode_places has ended and its result was assigned
GeocodingPassEnded ==
    \/ pc \in {"m_env", "m_routes", "m_markers", "m_save", "m_inject", "done"}
    \/ pc = "exit" /\ exitAt \in {154, 506, 240, 518}

\* no call to the provider returned a location
NoRowGeocoded == \A k \in 1..Len(geoLog) : ~geoLog[k].found

\* the rows of the sorted frame whose call returned a location, in order
Geocoded == FilterSeq(df, [k \in 1..Len(df) |-> k <= Len(geoLog) /\ geoLog[k].found])

\* C8 (as claimed): a map builder that has made its geocoding pass ends
\* with status 1 exactly when no row was geocoded, and then before any
\* routing request and before the HTML file is written; when at least one
\* row was geocoded the run is not ended by an exit.
C8_ExitsIffNoRowGeocodes ==
    (variant # "" /\ Terminated /\ GeocodingPassEnded) =>
        /\ (exitStatus = 1) <=> NoRowGeocoded
        /\ NoRowGeocoded => (routeLog = <<>> /\ polylines = <<>> /\ ~html.saved)

\* C9: geocode_places never aborts the batch. It calls the provider once
\* per row, in row order; a row whose call returns a location gets that
\* location's coordinates and address, a row whose call returns nothing or
\* raises gets null coordinates and a null address, and the other rows'
\* results do not depend on it; the frame returned has every row, in the
\* same order.
C9_GeocodePerRow ==
    variant # "" =>
        /\ exitAt # 62
        /\ Len(coords) = Len(geoLog)
        /\ Len(geoLog) <= Len(df)
        /\ \A k \in 1..Len(geoLog) :
              /\ geoLog[k].place = df[k].place
              /\ coords[k] = IF geoLog[k].found
                             THEN Location(df[k].place)
                             ELSE [latitude |-> None, longitude |-> None, address |-> None]
        /\ GeocodingPassEnded =>
              /\ Len(geoLog) = Len(df)
              /\ \A k \in 1..Len(df) :
                    /\ df[k].latitude = coords[k].latitude
                    /\ df[k].longitude = coords[k].longitude
                    /\ df[k].geocoded_address = coords[k].address
                    /\ df[k].idx = k - 1

\* C9 witness: the pass has ended on three rows, the call for the second
\* having returned no location
C9_Witness ==
    /\ pc \in {"m_env", "m_markers"}
    /\ Len(df) = 3
    /\ geoLog[1].found
    /\ ~geoLog[2].found
    /\ geoLog[3].found
    /\ isna(df[2].latitude)
    /\ df[3].latitude = <<"lat", df[3].place[1]>>

\* the loop over the legs has ended
LegsDone ==
    \/ pc \in {"m_save", "m_inject", "done"}
    \/ variant = "animated" /\ pc = "m_markers"
    \/ variant = "animated" /\ pc = "exit" /\ exitAt = 240

\* the type cell is car, drive or driving after lowercasing and trimming
CarType(cell) == ~isna(cell) /\ str_strip(str_lower(cell)) \in {s_car, s_drive, s_driving}

\* the coordinates of a geocoded row
PointOf(r) == <<Location(r.place).latitude, Location(r.place).longitude>>

\* C10: with n rows geocoded, in date order, the map builder builds n - 1
\* segments: segment i runs from row i to row i + 1, so each segment starts
\* where the one before it ended; no segment, route line or marker refers to
\* a row without coordinates; a segment is marked car exactly when the type
\* of its start row, lowercased and trimmed, is car, drive or driving; and
\* the path of a flight segment is its two endpoints.
C10_SegmentAssembly ==
    variant # "" =>
        LET V == Geocoded
            n == Len(V)
        IN  /\ Len(polylines) <= SetMax({0, n - 1})
            /\ LegsDone => Len(polylines) = n - 1
            /\ Len(route_segments) = (IF variant = "animated" THEN Len(polylines) ELSE 0)
            /\ \A i \in 1..Len(polylines) :
                  /\ polylines[i].start_idx = V[i].idx
                  /\ polylines[i].end_idx = V[i + 1].idx
                  /\ (polylines[i].mode = "car") <=> CarType(V[i].type)
                  /\ polylines[i].mode = "flight" =>
                        polylines[i].path = <<PointOf(V[i]), PointOf(V[i + 1])>>
                  /\ \A q \in 1..Len(polylines[i].path) :
                        ~isna(polylines[i].path[q][1]) /\ ~isna(polylines[i].path[q][2])
            /\ \A i \in 1..Len(route_segments) :
                  /\ route_segments[i].start_idx = i - 1
                  /\ route_segments[i].end_idx = i
                  /\ route_segments[i].start_place = V[i].place
                  /\ route_segments[i].end_place = V[i + 1].place
                  /\ i > 1 => route_segments[i].start_place = route_segments[i - 1].end_place
                  /\ route_segments[i].is_car <=> CarType(V[i].type)
                  /\ route_segments[i].coords = polylines[i].path
                  /\ ~route_segments[i].is_car =>
                        route_segments[i].coords = <<PointOf(V[i]), PointOf(V[i + 1])>>
            /\ \A m \in 1..Len(markers) :
                  /\ markers[m].place = V[m].place
                  /\ markers[m].location = PointOf(V[m])

\* C10 witness: the animated builder has stored two segments, a car segment
\* whose end row is a flight row and then a flight segment, from three rows
\* of which the one read first was sorted last
C10_Witness ==
    /\ variant = "animated"
    /\ pc = "done"
    /\ Len(route_segments) = 2
    /\ route_segments[1].is_car
    /\ ~route_segments[2].is_car
    /\ route_segments[2].end_place = PlaceOf(1)
    /\ Len(route_segments[1].coords) = 3

\* C10 witness of the rows left out: the segment joins the first and the
\* third row, the second having no coordinates
C10_SkipsNullRow ==
    /\ variant = "animated"
    /\ pc = "done"
    /\ Len(df) = 3
    /\ ~geoLog[2].found
    /\ Len(route_segments) = 1
    /\ route_segments[1].start_place = df[1].place
    /\ route_segments[1].end_place = df[3].place

(***************************************************************************)
(* Claims about route resolution                                           *)
(***************************************************************************)
\* the legs (0-based) built so far that are car legs, in order
CarLegs == FilterSeq([i \in 1..Len(polylines) |-> i - 1],
                     [i \in 1..Len(polylines) |-> polylines[i].mode = "car"])

\* the two-point line of leg i (1-based) of the geocoded rows
StraightLine(i) == <<PointOf(Geocoded[i]), PointOf(Geocoded[i + 1])>>

\* an API key is configured: the variable is set and not empty
KeyConfigured == google_api_key \notin {None, <<>>}

\* the requests are one per car leg, in leg order, none for a flight leg,
\* each to the primary provider iff a key is configured, else to the free
\* provider; and no run ends inside route resolution
OneRequestPerCarLeg ==
    /\ Len(routeLog) = Len(CarLegs)
    /\ \A q \in 1..Len(routeLog) :
          /\ routeLog[q].leg = CarLegs[q]
          /\ routeLog[q].provider = (IF KeyConfigured THEN "google" ELSE "osrm")
    /\ pc = "exit" => exitAt \in {126, 478, 132, 484, 141, 493, 154, 506, 240, 518}

\* C11 (as claimed): route resolution never ends the run; one request per
\* car leg and none per flight leg, to the provider the key selects; the
\* path of a car leg is the decoded polyline when the provider answered OK
\* and the two-point line [start, end] on any failure.
C11_RouteResolution ==
    variant # "" =>
        /\ OneRequestPerCarLeg
        /\ \A q \in 1..Len(routeLog) :
              LET i == routeLog[q].leg + 1
              IN  polylines[i].path = IF routeLog[q].ok
                                      THEN routeLog[q].decoded
                                      ELSE StraightLine(i)

\* C11 (amended): as C11, but an OK answer whose polyline decodes to no
\* point also gives the two-point line: the path of a car leg is the decoded
\* polyline when the provider answered OK with a polyline of at least one
\* point, and the two-point line [start, end] otherwise.
C11_RouteResolutionNonEmpty ==
    variant # "" =>
        /\ OneRequestPerCarLeg
        /\ \A q \in 1..Len(routeLog) :
              LET i == routeLog[q].leg + 1
              IN  polylines[i].path = IF routeLog[q].ok /\ routeLog[q].decoded # <<>>
                                      THEN routeLog[q].decoded
                                      ELSE StraightLine(i)

\* C11 witness: with an empty key in the environment, a flight leg got no
\* request, and of two car legs asked of the free provider one failed and
\* one was answered with a road
C11_Witness ==
    /\ variant # ""
    /\ google_api_key = <<>>
    /\ Len(polylines) = 2
    /\ Len(routeLog) = 2
    /\ routeLog[1].provider = "osrm"
    /\ ~routeLog[1].ok
    /\ routeLog[2].ok
    /\ Len(polylines[2].path) = 3
    /\ Len(polylines[1].path) = 2

(***************************************************************************)
(* Claims about the markers                                                *)
(***************************************************************************)
\* the loop over the markers has ended normally
MarkersDone ==
    /\ variant # ""
    /\ \/ pc \in {"m_save", "m_inject", "done"}
       \/ variant = "basic" /\ pc \in {"m_env", "m_routes"}

\* C12 (as claimed): of the markers drawn for the n geocoded rows in date
\* order, the first is red, the last is green when n > 1, every other one
\* is blue, and the k-th shows stop k of n.
C12_MarkerColouring ==
    MarkersDone =>
        LET n == Len(Geocoded)
        IN  /\ Len(markers) = n
            /\ \A k \in 1..Len(markers) :
                  /\ markers[k].place = Geocoded[k].place
                  /\ markers[k].color = (IF k = 1 THEN "red"
                                         ELSE IF k = n THEN "green" ELSE "blue")
                  /\ markers[k].stop = k
                  /\ markers[k].of = n

(***************************************************************************)
(* Claims about the splice                                                 *)
(***************************************************************************)
\* the block the splice is to insert: the script with the serialized
\* segments where the placeholder stood, and the line break
AnimationBlock ==
    script_head \o json_dumps(segments_of(places)) \o script_tail("map_1") \o <<"\n">>

\* C13 (as claimed): the file written holds the page the map library saved
\* with the animation block inserted once, immediately before the closing
\* body marker of the document (the last one of the page), and nothing else
\* changed: whatever the labels, also labels that hold the text of the
\* closing body marker or of the placeholder.
C13_SplicedOnce ==
    (places # <<>> /\ pc = "done") =>
        LET base == folium_save(places)
            i == SetMax(occurrences(base, BodyClose))
        IN  file = SubSeq(base, 1, i - 1) \o AnimationBlock \o SubSeq(base, i, Len(base))

(***************************************************************************)
(* Claims about the animation                                              *)
(***************************************************************************)
\* the finished state
Finished ==
    /\ currentSegmentIndex = Len(routeSegments)
    /\ ~isPlaying
    /\ playButton = "restart"

\* the timers whose firing steps the marker or starts a segment
ChainTimers == {t \in timers : t.kind \in {"step", "gap"}}

\* C14 (as claimed, the order of the segments): currentSegmentIndex never
\* exceeds the number of segments; the segments animated since the last
\* reset are 0, 1, 2, ... in order, each once, and every segment before the
\* current one is among them, so none is skipped; no handler fails on a null
\* marker; and the marker is at a point inside the path of the segment being
\* animated (the last one started).
C14_SegmentsInOrder ==
    pc = "page" =>
        /\ currentSegmentIndex <= Len(routeSegments)
        /\ ~jsError
        /\ \A k \in 1..Len(startedSegments) : startedSegments[k] = k - 1
        /\ Len(startedSegments) \in {currentSegmentIndex, currentSegmentIndex + 1}
        /\ movingMarker # None =>
              /\ movingMarker[2] = startedSegments[Len(startedSegments)]
              /\ movingMarker[3] < routeSegments[movingMarker[2] + 1]

\* C14 (the liveness part): with every pending timer firing in the end, an
\* animation left playing by a click reaches the finished state unless
\* another click comes first.
C14_Finishes ==
    \A c \in 0..MaxClicks :
        (pc = "page" /\ isPlaying /\ clicks = c) ~> (Finished \/ clicks > c)

\* C14 (the restart part): a click in the finished state starts again from
\* segment 0.
C14_RestartReplays ==
    [][(pc = "page" /\ Finished /\ clicks' # clicks /\ routeSegments # <<>>) =>
          /\ startedSegments' = <<0>>
          /\ movingMarker' # None
          /\ movingMarker'[2] = 0]_vars

\* C15 (as claimed): while the animation is playing at most one timer is
\* pending whose firing steps the marker or starts a segment.
C15_SingleChain ==
    (pc = "page" /\ isPlaying) => Cardinality(ChainTimers) <= 1

\* C16: pause freezes and resume continues. While the button shows Resume
\* (a click has paused the animation and no click has followed), a timer
\* that fires changes neither currentSegmentIndex nor currentPointIndex nor
\* the marker; and the next click goes on from those indices: the segment
\* is the same and the point is the next sample after the frozen one (or,
\* when that sample is past the end of the path, the segment is complete and
\* the next one is current); a marker that was inside a segment is not
\* created again at the start of the segment; and the animation is playing
\* or has just finished.
C16_PauseFreezesResumeContinues ==
    [][(pc = "page" /\ playButton = "resume") =>
          IF clicks' = clicks
          THEN UNCHANGED <<currentSegmentIndex, currentPointIndex, movingMarker>>
          ELSE LET len == routeSegments[currentSegmentIndex + 1]
                   step == IF len >= 2 * StepSamples THEN len \div StepSamples ELSE 1
                   next == currentPointIndex + step
               IN  /\ IF next >= len
                      THEN /\ currentSegmentIndex' = currentSegmentIndex + 1
                           /\ currentPointIndex' = 0
                      ELSE /\ currentSegmentIndex' = currentSegmentIndex
                           /\ currentPointIndex' = next
                           /\ movingMarker' = <<"at", currentSegmentIndex, next>>
                   /\ currentPointIndex > 0 => startedSegments' = startedSegments
                   /\ isPlaying' \/ Finished']_vars

\* C16 witness: the third click has resumed an animation that two timers
\* had stepped and the second click had paused inside the first segment
C16_Witness ==
    /\ pc = "page"
    /\ clicks = 3
    /\ isPlaying
    /\ playButton = "pause"
    /\ startedSegments = <<0>>
    /\ currentSegmentIndex = 0
    /\ currentPointIndex = 8
    /\ movingMarker = <<"at", 0, 8>>
    /\ Cardinality(ChainTimers) = 1

====
